---- MODULE Spec2Model ----
(***************************************************************************)
(* The secretsEditor slice (reducers openStarted, openCompleted,           *)
(* editSecretStarted, editSecretCompleted) and its thunks openSecret and   *)
(* editCurrentlyShownSecret, together with the remote secrets store the    *)
(* thunks talk to.                                                         *)
(*                                                                         *)
(* A JavaScript object is modelled as the sequence of its own properties,  *)
(* in the order Object.keys() enumerates them: canonical array indices     *)
(* first, ascending, then the other string keys in insertion order.        *)
(* An optional value (null, undefined) is a sequence of length 0 or 1.     *)
(***************************************************************************)
EXTENDS Integers, Sequences, FiniteSets, TLC

\* ------------------------------------------------------------- bounds
\* Number of thunk invocations (openSecret, editCurrentlyShownSecret) in a run.
MaxOps == 3
\* Number of requests to the store that may be in flight at once.
MaxInFlight == 2
\* Number of keys of a secret handed to the reducer alone.
MaxKeys == 3

\* ------------------------------------------------------------- universe
extraKey == ".onyxia"

\* Keys an edit may name: two ordinary names, one canonical array index, and
\* the reserved key (the thunk takes any string).
Keys == {"a", "b", "1", extraKey}

Values == {"x", "y"}

Paths == {"p", "q"}

ErrorMessages == {"403", "timeout"}

\* ------------------------------------------------------------- values
\* A secret's value is a string; under extraKey the store also holds the
\* bookkeeping record.
Str(s) == [kind |-> "string", str |-> s]

ExtraValue(hiddenKeys, keysOrdering) ==
    [kind |-> "extra", hiddenKeys |-> hiddenKeys, keysOrdering |-> keysOrdering]

\* ------------------------------------------------------------- JS objects
IsArrayIndex(k) == k \in {"0", "1", "2"}

IndexValue(k) == CASE k = "0" -> 0 [] k = "1" -> 1 [] k = "2" -> 2 [] OTHER -> -1

ObjectKeys(o) == [i \in 1..Len(o) |-> o[i].key]

KeySet(o) == {o[i].key : i \in 1..Len(o)}

In(k, o) == k \in KeySet(o)

\* o[k], for a key the object has
Get(o, k) == o[CHOOSE i \in 1..Len(o) : o[i].key = k].value

Prop(k, v) == [key |-> k, value |-> v]

\* where a new property k lands among the properties of o
InsertAt(o, k) ==
    IF IsArrayIndex(k)
    THEN Cardinality({i \in 1..Len(o) :
             IsArrayIndex(o[i].key) /\ IndexValue(o[i].key) < IndexValue(k)}) + 1
    ELSE Len(o) + 1

\* o[k] = v
SetProp(o, k, v) ==
    IF In(k, o)
    THEN [i \in 1..Len(o) |-> IF o[i].key = k THEN Prop(k, v) ELSE o[i]]
    ELSE LET p == InsertAt(o, k)
         IN  SubSeq(o, 1, p - 1) \o <<Prop(k, v)>> \o SubSeq(o, p, Len(o))

\* delete o[k]
DeleteProp(o, k) == SelectSeq(o, LAMBDA e : e.key # k)

\* the object built by assigning the properties of entries, in order, to o
RECURSIVE AssignAll(_, _)
AssignAll(o, entries) ==
    IF entries = <<>> THEN o
    ELSE AssignAll(SetProp(o, Head(entries).key, Head(entries).value), Tail(entries))

\* { ...o }: the own properties of o, in Object.keys order
Spread(o) == AssignAll(<<>>, o)

\* ------------------------------------------------------------- EditSecretParams
AddOrOverwriteKeyValue(key, value) ==
    [action |-> "addOrOverwriteKeyValue", key |-> key, value |-> value]

RenameKey(key, newKey) == [action |-> "renameKey", key |-> key, newKey |-> newKey]

RenameKeyAndUpdateValue(key, newKey, newValue) ==
    [action |-> "renameKeyAndUpdateValue", key |-> key, newKey |-> newKey,
     newValue |-> newValue]

RemoveKeyValue(key) == [action |-> "removeKeyValue", key |-> key]

HideOrRevealKey(type, key) == [action |-> "hideOrRevealKey", type |-> type, key |-> key]

EditSecretParamsOver(K) ==
    {AddOrOverwriteKeyValue(k, v) : k \in K, v \in Values}
    \cup {RenameKey(k, n) : k \in K, n \in K}
    \cup {RenameKeyAndUpdateValue(k, n, v) : k \in K, n \in K, v \in Values}
    \cup {RemoveKeyValue(k) : k \in K}
    \cup {HideOrRevealKey(t, k) : t \in {"hide", "reveal"}, k \in K}

EditSecretParams == EditSecretParamsOver(Keys)

\* ------------------------------------------------------------- the slice
\* SecretsEditorState | null is a sequence of at most one record; so is its
\* secretWithMetadata (undefined while the secret is being opened).
null == <<>>

undefined == <<>>

SecretWithMetadata(secret, version) ==
    [secret |-> secret, metadata |-> [version |-> version]]

\* What a reducer leaves: the next state, and whether one of its assertions
\* failed (the dispatch then throws and the state is the one before).
Reduced(s) == [state |-> s, threw |-> FALSE]

Threw(s) == [state |-> s, threw |-> TRUE]

\* (the state opened over the previous one, its hiddenKeys left in place)
openStartedOverPrevious(s, basename) ==
    Reduced(<<[basename |-> basename,
               secretWithMetadata |-> undefined,
               hiddenKeys |-> IF s = null THEN <<>> ELSE s[1].hiddenKeys,
               isBeingUpdated |-> TRUE]>>)

openStarted(s, basename) ==
    Reduced(<<[basename |-> basename,
               secretWithMetadata |-> undefined,
               hiddenKeys |-> <<>>,
               isBeingUpdated |-> TRUE]>>)

openCompleted(s, secretWithMetadata, hiddenKeys) ==
    IF s = null THEN Threw(s)
    ELSE Reduced(<<[s[1] EXCEPT !.secretWithMetadata = <<secretWithMetadata>>,
                                !.hiddenKeys = hiddenKeys,
                                !.isBeingUpdated = FALSE]>>)

\* the entries of the clone with key renamed to newKey, in the clone's order
Renamed(secretClone, key, newKey) ==
    [i \in 1..Len(secretClone) |->
        Prop(IF secretClone[i].key = key THEN newKey ELSE secretClone[i].key,
             secretClone[i].value)]

\* (a rename written as a delete and an assignment: the renamed key goes last)
renameKeyByDeleteThenAssign(secret, key, newKey) ==
    IF In(key, secret)
    THEN SetProp(DeleteProp(secret, key), newKey, Get(secret, key))
    ELSE secret

\* renameKey of editSecretStarted: empty the record, then assign every
\* property of the clone back, key under the name newKey
renameKey(secret, key, newKey) ==
    AssignAll(<<>>, Renamed(Spread(secret), key, newKey))

\* case "addOrOverwriteKeyValue": secret[key] = value
\* (an overwrite written as a removal and an assignment: the key goes last)
caseAddOrOverwriteByRemoveThenAssign(secret, payload) ==
    SetProp(DeleteProp(secret, payload.key), payload.key, Str(payload.value))

caseAddOrOverwriteKeyValue(secret, payload) ==
    SetProp(secret, payload.key, Str(payload.value))

\* case "removeKeyValue": delete secret[key]
caseRemoveKeyValue(secret, payload) == DeleteProp(secret, payload.key)

\* case "renameKeyAndUpdateValue"
caseRenameKeyAndUpdateValue(secret, payload) ==
    SetProp(renameKey(secret, payload.key, payload.newKey),
            payload.newKey, Str(payload.newValue))

\* case "renameKey"
caseRenameKey(secret, payload) == renameKey(secret, payload.key, payload.newKey)

\* the secret after the switch of editSecretStarted
EditedSecret(secret, payload) ==
    CASE payload.action = "addOrOverwriteKeyValue" ->
            caseAddOrOverwriteKeyValue(secret, payload)
      [] payload.action = "removeKeyValue" -> caseRemoveKeyValue(secret, payload)
      [] payload.action = "renameKeyAndUpdateValue" ->
            caseRenameKeyAndUpdateValue(secret, payload)
      [] payload.action = "renameKey" -> caseRenameKey(secret, payload)
      [] OTHER -> secret

\* case "hideOrRevealKey"
\* (hide and reveal written as one toggle, whatever the type asked for)
caseToggleHidden(hiddenKeys, payload) ==
    IF \E i \in 1..Len(hiddenKeys) : hiddenKeys[i] = payload.key
    THEN SelectSeq(hiddenKeys, LAMBDA key_i : key_i # payload.key)
    ELSE Append(hiddenKeys, payload.key)

caseHideOrRevealKey(hiddenKeys, payload) ==
    IF payload.type = "hide" THEN Append(hiddenKeys, payload.key)
    ELSE SelectSeq(hiddenKeys, LAMBDA key_i : key_i # payload.key)

\* hiddenKeys after the switch of editSecretStarted
EditedHiddenKeys(hiddenKeys, payload) ==
    IF payload.action = "hideOrRevealKey"
    THEN caseHideOrRevealKey(hiddenKeys, payload)
    ELSE hiddenKeys

editSecretStarted(s, payload) ==
    IF s = null THEN Threw(s)
    ELSE IF s[1].secretWithMetadata = undefined THEN Threw(s)
    ELSE LET swm == s[1].secretWithMetadata[1]
         IN  Reduced(<<[s[1] EXCEPT
                 !.secretWithMetadata =
                     <<[swm EXCEPT !.secret = EditedSecret(swm.secret, payload)]>>,
                 !.hiddenKeys = EditedHiddenKeys(s[1].hiddenKeys, payload),
                 !.isBeingUpdated = TRUE]>>)

editSecretCompleted(s) ==
    IF s = null THEN Threw(s)
    ELSE IF s[1].secretWithMetadata = undefined THEN Threw(s)
    ELSE LET swm == s[1].secretWithMetadata[1]
         IN  Reduced(<<[s[1] EXCEPT
                 !.secretWithMetadata =
                     <<[swm EXCEPT !.metadata.version = swm.metadata.version + 1]>>,
                 !.isBeingUpdated = FALSE]>>)

\* errorOcurred has no case reducer among the slice's reducers: the message is
\* carried by the event and the slice's state is left as it is.
errorOcurred(s, errorMessage) == Reduced(s)

\* an action of the slice, and the slice's reducer
Action(type, payload) == [type |-> type, payload |-> payload]

reducer(s, a) ==
    CASE a.type = "openStarted" -> openStarted(s, a.payload.basename)
      [] a.type = "openCompleted" ->
            openCompleted(s, a.payload.secretWithMetadata, a.payload.hiddenKeys)
      [] a.type = "editSecretStarted" -> editSecretStarted(s, a.payload)
      [] a.type = "editSecretCompleted" -> editSecretCompleted(s)
      [] a.type = "errorOcurred" -> errorOcurred(s, a.payload.errorMessage)

\* ------------------------------------------------------------- the store
\* What the store holds under a path: the payload, the version of its
\* metadata, and (for the record only) the editor content a put was built from.
Stored(secret, version, from) == [secret |-> secret, version |-> version, from |-> from]

Obj2(k1, v1, k2, v2) == <<Prop(k1, v1), Prop(k2, v2)>>

Obj3(k1, v1, k2, v2, k3, v3) == <<Prop(k1, v1), Prop(k2, v2), Prop(k3, v3)>>

\* Payloads found under path "p" at the start: with well-formed bookkeeping,
\* without any, with a malformed one, and with a keysOrdering written by
\* another client that lists an absent key and the reserved key.
InitialPayloads ==
    { Obj3("a", Str("x"), "b", Str("y"), extraKey, ExtraValue(<<"b">>, <<"b", "a">>)),
      Obj2("1", Str("y"), "a", Str("x")),
      Obj2("a", Str("x"), extraKey, Str("y")),
      Obj2("b", Str("y"), extraKey, ExtraValue(<<"b">>, <<"a", extraKey, "b">>)) }

InitialStores ==
    { [path \in Paths |->
          IF path = "p" THEN Stored(payload, 1, <<>>)
          ELSE Stored(<<Prop("b", Str("x"))>>, 3, <<>>)] : payload \in InitialPayloads }

\* The properties of o as a response lists them: the store keeps no order, so
\* any order may come back, and parsing assigns them in that order.
Responses(o) ==
    { AssignAll(<<>>, [i \in 1..Len(o) |-> o[f[i]]]) : f \in Permutations(1..Len(o)) }

\* ------------------------------------------------------------- openSecret
\* { hiddenKeys, keysOrdering } read from secret[extraKey], or the fallback
\* of the catch block
Bookkeeping(secret) ==
    IF In(extraKey, secret) /\ Get(secret, extraKey).kind = "extra"
    THEN [hiddenKeys |-> Get(secret, extraKey).hiddenKeys,
          keysOrdering |-> SelectSeq(Get(secret, extraKey).keysOrdering,
                                     LAMBDA key : In(key, secret))]
    ELSE [hiddenKeys |-> <<>>, keysOrdering |-> ObjectKeys(secret)]

RECURSIVE DeleteAll(_, _)
DeleteAll(o, keys) ==
    IF keys = <<>> THEN o ELSE DeleteAll(DeleteProp(o, Head(keys)), Tail(keys))

OrderedSecret(secret) ==
    LET keysOrdering == Bookkeeping(secret).keysOrdering
        cleared == DeleteAll(DeleteProp(Spread(secret), extraKey), keysOrdering)
    IN  AssignAll(cleared,
                  [i \in 1..Len(keysOrdering) |->
                      Prop(keysOrdering[i], Get(secret, keysOrdering[i]))])

\* ------------------------------------------------------------- editCurrentlyShownSecret
\* state.state === "SHOWING SECRET"
ShowingSecret(s) == s # null /\ s[1].secretWithMetadata # undefined

\* state.secretWithMetadata.secret and .metadata.version of a shown secret
SecretOf(s) == s[1].secretWithMetadata[1].secret

VersionOf(s) == s[1].secretWithMetadata[1].metadata.version

\* (the overwrite skipped as soon as the key is there, whatever its value)
OptimizedByKeyAlone(secret, params) ==
    CASE params.action = "addOrOverwriteKeyValue" -> In(params.key, secret)
      [] params.action = "renameKey" -> params.key = params.newKey
      [] params.action = "renameKeyAndUpdateValue" ->
            /\ params.key = params.newKey
            /\ In(params.key, secret)
            /\ Get(secret, params.key) = Str(params.newValue)
      [] params.action = "removeKeyValue" -> ~In(params.key, secret)
      [] OTHER -> FALSE

\* the early returns of the block "Optimizations"
Optimized(secret, params) ==
    CASE params.action = "addOrOverwriteKeyValue" ->
            In(params.key, secret) /\ Get(secret, params.key) = Str(params.value)
      [] params.action = "renameKey" ->
            params.key = params.newKey
      [] params.action = "renameKeyAndUpdateValue" ->
            /\ params.key = params.newKey
            /\ In(params.key, secret)
            /\ Get(secret, params.key) = Str(params.newValue)
      [] params.action = "removeKeyValue" ->
            ~In(params.key, secret)
      [] OTHER -> FALSE

\* { ...secret, [extraKey]: { hiddenKeys, keysOrdering: Object.keys(secret) } }
PutPayload(secret, hiddenKeys) ==
    SetProp(Spread(secret), extraKey, ExtraValue(hiddenKeys, ObjectKeys(secret)))

\* what openSecret dispatches once its get has settled, with error (undefined
\* when the get succeeded) or with the response; the success event, which the
\* thunk names navigationTowardSecretSuccess, carries the payload of the
\* slice's openCompleted and is reduced by it
OpenSecretSettled(error, secret, version) ==
    IF error # undefined
    THEN Action("errorOcurred", [errorMessage |-> error[1]])
    ELSE Action("openCompleted",
                [secretWithMetadata |-> SecretWithMetadata(OrderedSecret(secret), version),
                 hiddenKeys |-> Bookkeeping(secret).hiddenKeys])

\* what editCurrentlyShownSecret dispatches once its put has settled
\* (the error dropped: completion dispatched whatever the put returned)
EditSettledIgnoringError(error) == Action("editSecretCompleted", <<>>)

EditSettled(error) ==
    IF error # undefined
    THEN Action("errorOcurred", [errorMessage |-> error[1]])
    ELSE Action("editSecretCompleted", <<>>)

\* ------------------------------------------------------------- state
VARIABLES
    state,      \* the slice's state: SecretsEditorState | null
    store,      \* the remote store: path -> Stored
    inFlight,   \* the thunks awaiting their request to the store
    nOps,       \* thunk invocations so far
    lastStep    \* the latest step: see Step

vars == <<state, store, inFlight, nOps, lastStep>>

\* dispatch(a): the event as it went through the reducer
Event(a) == [type |-> a.type, payload |-> a.payload, threw |-> reducer(state, a).threw]

Request(method, path) == [method |-> method, path |-> path]

\* a request's outcome: its error (undefined on success), and for a get the
\* version and the origin of what came back
Settled(t, error) ==
    [id |-> t.id, method |-> t.method, path |-> t.path, error |-> error,
     version |-> t.version, from |-> t.from]

\* a step of the program: the events it dispatched, the requests it sent, the
\* request whose outcome it handled, the slice's state it started from, and
\* (see Invocation) the params editCurrentlyShownSecret was called with
Step(dispatched, issued, settled) ==
    [dispatched |-> dispatched, issued |-> issued, settled |-> settled,
     before |-> state, invoked |-> <<>>]

\* the step of editCurrentlyShownSecret(params) up to its return or its await
Invocation(params, step) == [step EXCEPT !.invoked = <<params>>]

\* a thunk suspended at its await: the request, and the response once the
\* store has served it
Awaiting(id, method, path, secret) ==
    [id |-> id, method |-> method, path |-> path, phase |-> "sent",
     secret |-> secret, version |-> 0, from |-> <<>>]

Init ==
    /\ state = null
    /\ store \in InitialStores
    /\ inFlight = {}
    /\ nOps = 0
    /\ lastStep = Step(<<>>, <<>>, <<>>)

\* how a request settles: it is rejected with some error before the store has
\* served it, and resolves once the store has
Outcomes(t) ==
    IF t.phase = "served" THEN {undefined}
    ELSE {<<errorMessage>> : errorMessage \in ErrorMessages}

\* ------------------------------------------------------------- thunks
\* openSecret up to its await: openStarted, then the get is sent
OpenSecret(basename) ==
    LET a == Action("openStarted", [basename |-> basename])
    IN  /\ nOps < MaxOps
        /\ Cardinality(inFlight) < MaxInFlight
        /\ state' = reducer(state, a).state
        /\ inFlight' = inFlight \cup {Awaiting(nOps + 1, "get", basename, <<>>)}
        /\ nOps' = nOps + 1
        /\ lastStep' = Step(<<Event(a)>>, <<Request("get", basename)>>, <<>>)
        /\ UNCHANGED store

\* openSecret after its await
OpenSecretResumes(t) ==
    /\ t \in inFlight
    /\ t.method = "get"
    /\ \E error \in Outcomes(t) :
          LET a == OpenSecretSettled(error, t.secret, t.version)
          IN  /\ state' = reducer(state, a).state
              /\ lastStep' = Step(<<Event(a)>>, <<>>, <<Settled(t, error)>>)
    /\ inFlight' = inFlight \ {t}
    /\ UNCHANGED <<store, nOps>>

\* the put editCurrentlyShownSecret sends: path, secret and hiddenKeys are read
\* from the state as editSecretStarted left it
PutOf(id, s) ==
    [Awaiting(id, "put", s[1].basename, PutPayload(SecretOf(s), s[1].hiddenKeys))
        EXCEPT !.from = <<[secret |-> SecretOf(s), hiddenKeys |-> s[1].hiddenKeys]>>]

\* editCurrentlyShownSecret up to its await: the assertion that a secret is
\* shown (the thunk throws before doing anything otherwise), the early
\* returns, editSecretStarted, then the put is sent
EditCurrentlyShownSecret(params) ==
    /\ nOps < MaxOps
    /\ ShowingSecret(state)
    /\ nOps' = nOps + 1
    /\ UNCHANGED store
    /\ \/ /\ Optimized(SecretOf(state), params)
          /\ lastStep' = Invocation(params, Step(<<>>, <<>>, <<>>))
          /\ UNCHANGED <<state, inFlight>>
       \/ /\ ~Optimized(SecretOf(state), params)
          /\ Cardinality(inFlight) < MaxInFlight
          /\ LET a == Action("editSecretStarted", params)
                 put == PutOf(nOps + 1, reducer(state, a).state)
             IN  /\ state' = reducer(state, a).state
                 /\ inFlight' = inFlight \cup {put}
                 /\ lastStep' = Invocation(params,
                        Step(<<Event(a)>>, <<Request("put", put.path)>>, <<>>))

\* editCurrentlyShownSecret after its await
\* (a failed put sent again instead of being reported)
EditCurrentlyShownSecretRetries(t) ==
    /\ t \in inFlight
    /\ t.method = "put"
    /\ \E error \in Outcomes(t) :
          IF error # undefined
          THEN /\ inFlight' = (inFlight \ {t}) \cup {[t EXCEPT !.phase = "sent"]}
               /\ lastStep' = Step(<<>>, <<Request("put", t.path)>>, <<Settled(t, error)>>)
               /\ UNCHANGED state
          ELSE /\ inFlight' = inFlight \ {t}
               /\ state' = reducer(state, EditSettled(error)).state
               /\ lastStep' = Step(<<Event(EditSettled(error))>>, <<>>,
                                   <<Settled(t, error)>>)
    /\ UNCHANGED <<store, nOps>>

EditCurrentlyShownSecretResumes(t) ==
    /\ t \in inFlight
    /\ t.method = "put"
    /\ \E error \in Outcomes(t) :
          LET a == EditSettled(error)
          IN  /\ state' = reducer(state, a).state
              /\ lastStep' = Step(<<Event(a)>>, <<>>, <<Settled(t, error)>>)
    /\ inFlight' = inFlight \ {t}
    /\ UNCHANGED <<store, nOps>>

\* The store serves a request: a get reads what is stored under the path, a
\* put replaces it and stamps the next version.
StoreServes(t) ==
    /\ t \in inFlight
    /\ t.phase = "sent"
    /\ lastStep' = Step(<<>>, <<>>, <<>>)
    /\ UNCHANGED <<state, nOps>>
    /\ \/ /\ t.method = "get"
          /\ \E response \in Responses(store[t.path].secret) :
                inFlight' = (inFlight \ {t}) \cup
                    {[t EXCEPT !.phase = "served",
                               !.secret = response,
                               !.version = store[t.path].version,
                               !.from = store[t.path].from]}
          /\ UNCHANGED store
       \/ /\ t.method = "put"
          /\ store' = [store EXCEPT ![t.path] =
                          Stored(t.secret, store[t.path].version + 1, t.from)]
          /\ inFlight' = (inFlight \ {t}) \cup {[t EXCEPT !.phase = "served"]}

Next ==
    \/ \E basename \in Paths : OpenSecret(basename)
    \/ \E t \in inFlight : OpenSecretResumes(t)
    \/ \E params \in EditSecretParams : EditCurrentlyShownSecret(params)
    \/ \E t \in inFlight : EditCurrentlyShownSecretResumes(t)
    \/ \E t \in inFlight : StoreServes(t)

Spec == Init /\ [][Next]_vars

\* The same thunks and store with the edits naming one key only: the
\* interleavings of requests and their outcomes at a lower cost per edit.
FewKeys == {"a"}

NextFewKeys ==
    \/ \E basename \in Paths : OpenSecret(basename)
    \/ \E t \in inFlight : OpenSecretResumes(t)
    \/ \E params \in EditSecretParamsOver(FewKeys) : EditCurrentlyShownSecret(params)
    \/ \E t \in inFlight : EditCurrentlyShownSecretResumes(t)
    \/ \E t \in inFlight : StoreServes(t)

SpecFewKeys == Init /\ [][NextFewKeys]_vars

\* ------------------------------------------------------------- the reducer alone
\* editSecretStarted applied to any editor state holding a secret of at most
\* MaxKeys keys: the records Object.keys can enumerate, with string values.
ReducerKeys == {"a", "b", "1", "2"}

Entries(n) == [1..n -> ReducerKeys \X Values]

Secrets ==
    UNION { { AssignAll(<<>>, [i \in 1..n |-> Prop(f[i][1], Str(f[i][2]))]) :
                f \in Entries(n) } : n \in 0..MaxKeys }

HiddenKeyLists == {<<>>, <<"a">>, <<"b", "a", "b">>}

InitReducer ==
    /\ state \in { <<[basename |-> "p",
                      secretWithMetadata |-> <<SecretWithMetadata(secret, 1)>>,
                      hiddenKeys |-> hiddenKeys,
                      isBeingUpdated |-> FALSE]>> :
                   secret \in Secrets, hiddenKeys \in HiddenKeyLists }
    /\ store = [path \in Paths |-> Stored(<<>>, 0, <<>>)]
    /\ inFlight = {}
    /\ nOps = 0
    /\ lastStep = Step(<<>>, <<>>, <<>>)

DispatchEditSecretStarted(payload) ==
    LET a == Action("editSecretStarted", payload)
    IN  /\ nOps = 0
        /\ state' = reducer(state, a).state
        /\ nOps' = 1
        /\ lastStep' = Step(<<Event(a)>>, <<>>, <<>>)
        /\ UNCHANGED <<store, inFlight>>

NextReducer ==
    \E payload \in EditSecretParamsOver(ReducerKeys) : DispatchEditSecretStarted(payload)

SpecReducer == InitReducer /\ [][NextReducer]_vars

\* ------------------------------------------------------------- one edit alone
\* editCurrentlyShownSecret called once on any of the editor states above, its
\* put served by the store, and the thunk resumed.
NextOneEdit ==
    \/ \E params \in EditSecretParamsOver(ReducerKeys) :
          nOps = 0 /\ EditCurrentlyShownSecret(params)
    \/ \E t \in inFlight : EditCurrentlyShownSecretResumes(t)
    \/ \E t \in inFlight : StoreServes(t)

SpecOneEdit == InitReducer /\ [][NextOneEdit]_vars

\* ------------------------------------------------------------- properties
\* the latest step dispatched exactly this kind of event
Dispatched(type) ==
    Len(lastStep.dispatched) = 1 /\ lastStep.dispatched[1].type = type

LastPayload == lastStep.dispatched[1].payload

\* the latest step was editSecretStarted with this action
Edited(action) ==
    Dispatched("editSecretStarted") /\ LastPayload.action = action

\* after is before with key renamed to newKey where it stands
RenamedInPlace(before, after, key, newKey) ==
    /\ Len(after) = Len(before)
    /\ \A i \in 1..Len(before) :
          after[i] = IF before[i].key = key
                     THEN Prop(newKey, before[i].value)
                     ELSE before[i]

\* C1 as stated: after every renameKey (key -> newKey), newKey present or key
\* absent included, the value of key is under newKey at the position key had,
\* every other key keeps its value and position, and no key is gained or lost.
C1_RenameAlwaysInPlace ==
    Edited("renameKey") =>
        RenamedInPlace(SecretOf(lastStep.before), SecretOf(state),
                       LastPayload.key, LastPayload.newKey)

\* C1 amended: renameKey (key -> newKey) renames in place when key is a key of
\* the secret, newKey is not another key of it, and neither is a canonical
\* array index; when key is absent the secret is left as it is.
C1_RenameInPlace ==
    Edited("renameKey") =>
        LET before == SecretOf(lastStep.before)
            key == LastPayload.key
            newKey == LastPayload.newKey
        IN  /\ ( /\ In(key, before)
                 /\ newKey = key \/ ~In(newKey, before)
                 /\ ~IsArrayIndex(key) /\ ~IsArrayIndex(newKey) )
               => RenamedInPlace(before, SecretOf(state), key, newKey)
            /\ ~In(key, before) => SecretOf(state) = before

\* a rename that moved a value: key stood first of several keys, and newKey
\* stands there now
C1_Witness ==
    /\ Edited("renameKey")
    /\ LastPayload.key # LastPayload.newKey
    /\ Len(SecretOf(lastStep.before)) >= 2
    /\ SecretOf(lastStep.before)[1].key = LastPayload.key
    /\ ~In(LastPayload.newKey, SecretOf(lastStep.before))
    /\ SecretOf(state)[1].key = LastPayload.newKey

\* the elements of a list, and where a key stands in a record
Elements(list) == {list[i] : i \in 1..Len(list)}

Pos(o, k) == CHOOSE i \in 1..Len(o) : o[i].key = k

\* C2 as stated: whenever a secret is shown, every element of hiddenKeys is a
\* key of the shown secret.
C2_HiddenKeysAreKeys ==
    ShowingSecret(state) => Elements(state[1].hiddenKeys) \subseteq KeySet(SecretOf(state))

\* C3: editSecretStarted with hideOrRevealKey leaves the secret record as it
\* was (keys, order, values, metadata); hide appends the key to hiddenKeys,
\* reveal removes its every occurrence and nothing else.
C3_HideRevealOnlyHiddenKeys ==
    Edited("hideOrRevealKey") =>
        LET hiddenBefore == lastStep.before[1].hiddenKeys
            key == LastPayload.key
        IN  /\ state[1].secretWithMetadata = lastStep.before[1].secretWithMetadata
            /\ state[1].basename = lastStep.before[1].basename
            /\ LastPayload.type = "hide" =>
                  /\ state[1].hiddenKeys = Append(hiddenBefore, key)
                  /\ key \in Elements(state[1].hiddenKeys)
            /\ LastPayload.type = "reveal" =>
                  /\ key \notin Elements(state[1].hiddenKeys)
                  /\ state[1].hiddenKeys =
                        SelectSeq(hiddenBefore, LAMBDA k : k # key)

\* a key of the secret that was already hidden has just been hidden again
C3_Witness ==
    /\ Edited("hideOrRevealKey")
    /\ LastPayload.type = "hide"
    /\ In(LastPayload.key, SecretOf(state))
    /\ LastPayload.key \in Elements(lastStep.before[1].hiddenKeys)
    /\ Len(state[1].hiddenKeys) = Len(lastStep.before[1].hiddenKeys) + 1

\* the keys of K that before and after both have stand in the same relative order
KeepOrder(before, after, K) ==
    \A u, w \in K \cap KeySet(before) \cap KeySet(after) :
        Pos(before, u) < Pos(before, w) => Pos(after, u) < Pos(after, w)

\* every key new to the secret stands after all the keys it had
NewKeysLast(before, after) ==
    \A n \in KeySet(after) \ KeySet(before) :
        \A k \in KeySet(after) \cap KeySet(before) : Pos(after, k) < Pos(after, n)

\* C4 as stated: whatever the edit, two keys the secret has before and after
\* keep their relative order, an overwritten key stays where it is, and a key
\* new to the secret stands after all the keys it had.
C4_OrderPersists ==
    Dispatched("editSecretStarted") =>
        LET before == SecretOf(lastStep.before)
            after == SecretOf(state)
        IN  /\ KeepOrder(before, after, KeySet(before))
            /\ ( LastPayload.action = "addOrOverwriteKeyValue"
                 /\ In(LastPayload.key, before) ) => ObjectKeys(after) = ObjectKeys(before)
            /\ NewKeysLast(before, after)

\* the name a rename moves a value to
NewKeyOf(payload) ==
    IF payload.action \in {"renameKey", "renameKeyAndUpdateValue"}
    THEN {payload.newKey} ELSE {}

\* C4 amended: whatever the edit, two keys the secret has before and after keep
\* their relative order unless one of them is the newKey of a rename; an
\* overwritten key stays where it is; a key that addOrOverwriteKeyValue adds
\* stands after all the keys the secret had unless it is a canonical array
\* index.
C4_OrderPersistsButForNewKey ==
    Dispatched("editSecretStarted") =>
        LET before == SecretOf(lastStep.before)
            after == SecretOf(state)
        IN  /\ KeepOrder(before, after, KeySet(before) \ NewKeyOf(LastPayload))
            /\ ( LastPayload.action = "addOrOverwriteKeyValue"
                 /\ In(LastPayload.key, before) ) => ObjectKeys(after) = ObjectKeys(before)
            /\ ( LastPayload.action = "addOrOverwriteKeyValue"
                 /\ ~IsArrayIndex(LastPayload.key) ) => NewKeysLast(before, after)

\* the first of several keys has been overwritten with another value and
\* stands first still
C4_Witness ==
    /\ Edited("addOrOverwriteKeyValue")
    /\ Len(SecretOf(lastStep.before)) >= 2
    /\ SecretOf(lastStep.before)[1].key = LastPayload.key
    /\ SecretOf(lastStep.before)[1].value # Str(LastPayload.value)
    /\ SecretOf(state)[1] = Prop(LastPayload.key, Str(LastPayload.value))

\* the latest step handled the outcome of a request of this method
Handled(method) == Len(lastStep.settled) = 1 /\ lastStep.settled[1].method = method

LastSettled == lastStep.settled[1]

Failed(method) == Handled(method) /\ LastSettled.error # undefined

\* the key/value pairs of a record, whatever their order
Pairs(o) == {<<o[i].key, o[i].value>> : i \in 1..Len(o)}

\* C5 as stated: when a put of editCurrentlyShownSecret has succeeded and an
\* openSecret invoked after it gets the payload it stored, the editor holds
\* after the open the secret (keys, order, values) and the hiddenKeys it held
\* when the put was sent.
C5_RoundTrip ==
    ( /\ Dispatched("openCompleted")
      /\ Handled("get")
      /\ LastSettled.id = nOps
      /\ LastSettled.from # <<>>
      /\ \A t \in inFlight : t.method # "put" ) =>
        /\ SecretOf(state) = LastSettled.from[1].secret
        /\ state[1].hiddenKeys = LastSettled.from[1].hiddenKeys

\* the put sent by the latest step
LastPut == CHOOSE t \in inFlight : t.id = nOps /\ t.method = "put"

\* C6 as stated: the put an edit sends carries exactly the key/value pairs of
\* the editor's secret as editSecretStarted left it, plus the key ".onyxia"
\* with { hiddenKeys, keysOrdering } of the editor.
C6_PutCarriesSecretPlusExtra ==
    Dispatched("editSecretStarted") =>
        /\ lastStep.issued = <<Request("put", state[1].basename)>>
        /\ \E t \in inFlight : t.id = nOps /\ t.method = "put"
        /\ LastPut.path = state[1].basename
        /\ Pairs(LastPut.secret) =
              Pairs(SecretOf(state)) \cup
              {<<extraKey, ExtraValue(state[1].hiddenKeys, ObjectKeys(SecretOf(state)))>>}
        /\ Len(LastPut.secret) = Len(SecretOf(state)) + 1

\* C7: a step that handles a failed get or put dispatches errorOcurred with
\* that error's message and nothing else, the thunk is over, no secret gets
\* shown by it and the version of a shown secret stays what it was.
C7_FailureOnlyReportsError ==
    (Failed("get") \/ Failed("put")) =>
        /\ lastStep.dispatched =
              <<[type |-> "errorOcurred",
                 payload |-> [errorMessage |-> LastSettled.error[1]],
                 threw |-> FALSE]>>
        /\ \A t \in inFlight : t.id # LastSettled.id
        /\ ShowingSecret(state) = ShowingSecret(lastStep.before)
        /\ ShowingSecret(state) => VersionOf(state) = VersionOf(lastStep.before)

\* a put has failed while a secret was shown, after another put for it succeeded
C7_Witness ==
    /\ Failed("put")
    /\ ShowingSecret(state)
    /\ VersionOf(state) = store[state[1].basename].version
    /\ store[state[1].basename].from # <<>>

\* C8 as stated: a failed put is not sent again, and once it has failed the
\* editor's secret and hiddenKeys are what that edit's editSecretStarted left,
\* which is not what the store holds.
C8_FailedPutLeavesEditAhead ==
    Failed("put") =>
        /\ lastStep.issued = <<>>
        /\ \A t \in inFlight : t.id # LastSettled.id
        /\ ShowingSecret(state)
        /\ SecretOf(state) = LastSettled.from[1].secret
        /\ state[1].hiddenKeys = LastSettled.from[1].hiddenKeys
        /\ Pairs(PutPayload(SecretOf(state), state[1].hiddenKeys)) #
              Pairs(store[LastSettled.path].secret)

\* C8 amended: no step sends more than one request and a put is sent only
\* along with editSecretStarted; the step that handles a failed put sends
\* nothing, ends the thunk and leaves the slice's state, the editor's secret
\* and hiddenKeys with it, exactly as it found it.
C8_FailedPutNotRetriedNorRolledBack ==
    /\ Len(lastStep.issued) <= 1
    /\ (\E i \in 1..Len(lastStep.issued) : lastStep.issued[i].method = "put")
          => Dispatched("editSecretStarted")
    /\ Failed("put") =>
          /\ lastStep.issued = <<>>
          /\ \A t \in inFlight : t.id # LastSettled.id
          /\ state = lastStep.before

\* a put that changed the secret has failed, and the editor holds the edit
C8_Witness ==
    /\ Failed("put")
    /\ LastSettled.id = nOps
    /\ ShowingSecret(state)
    /\ SecretOf(state) = LastSettled.from[1].secret
    /\ Pairs(PutPayload(SecretOf(state), state[1].hiddenKeys)) #
          Pairs(store[LastSettled.path].secret)

\* C9 as stated: whenever editSecretStarted or editSecretCompleted is
\* dispatched the slice's state is non-null with a secretWithMetadata, so that
\* the reducer's assertions hold.
C9_AssertionsHold ==
    (Dispatched("editSecretStarted") \/ Dispatched("editSecretCompleted")) =>
        /\ ShowingSecret(lastStep.before)
        /\ ~lastStep.dispatched[1].threw

\* C10 as stated, step by step: the version of the shown secret is the one
\* received when it is opened, goes up by one when a put for that secret
\* succeeds, and is left alone by everything else, the success of a put for
\* another path included.
C10_VersionCountsOwnPuts ==
    ShowingSecret(state) =>
        IF Dispatched("openCompleted")
        THEN VersionOf(state) = LastSettled.version
        ELSE ShowingSecret(lastStep.before) =>
                VersionOf(state) = VersionOf(lastStep.before) +
                    (IF Dispatched("editSecretCompleted")
                        /\ LastSettled.path = state[1].basename
                     THEN 1 ELSE 0)

\* the latest step is editCurrentlyShownSecret(InvokedParams) up to its return
\* or its await
InvokedEdit == lastStep.invoked # <<>>

InvokedParams == lastStep.invoked[1]

\* what editSecretStarted(InvokedParams) makes of the state the thunk found
WouldBe == reducer(lastStep.before, Action("editSecretStarted", InvokedParams)).state

\* the edit invoked leaves the editor's secret and hiddenKeys as they were
NoEffect ==
    /\ SecretOf(WouldBe) = SecretOf(lastStep.before)
    /\ WouldBe[1].hiddenKeys = lastStep.before[1].hiddenKeys

\* C11 as stated: editCurrentlyShownSecret dispatches editSecretStarted and
\* sends a put only when the edit changes the editor's secret or hiddenKeys;
\* an edit with no effect dispatches nothing and sends no put.
C11_PutOnlyWhenEditChanges ==
    InvokedEdit =>
        IF NoEffect
        THEN lastStep.dispatched = <<>> /\ lastStep.issued = <<>>
        ELSE Dispatched("editSecretStarted") /\ Len(lastStep.issued) = 1

\* the edits without effect that are dispatched and put all the same: the
\* rename of an absent key to another name (with a value newKey holds
\* already), and the reveal of a key that is not hidden
UnskippedNoOp(secret, hiddenKeys, params) ==
    \/ /\ params.action = "renameKey"
       /\ params.key # params.newKey
       /\ ~In(params.key, secret)
    \/ /\ params.action = "renameKeyAndUpdateValue"
       /\ params.key # params.newKey
       /\ ~In(params.key, secret)
       /\ In(params.newKey, secret)
       /\ Get(secret, params.newKey) = Str(params.newValue)
    \/ /\ params.action = "hideOrRevealKey"
       /\ params.type = "reveal"
       /\ params.key \notin Elements(hiddenKeys)

\* C11 amended: editCurrentlyShownSecret either returns at once, having
\* dispatched nothing, sent nothing and left the state alone, or dispatches
\* editSecretStarted(params) and sends one put for the shown secret. It
\* returns at once only for an edit without effect, so that every edit that
\* changes the secret or hiddenKeys is dispatched and put; the edits without
\* effect it does not skip are the rename of an absent key to another name and
\* the reveal of a key that is not hidden.
C11_SkipsOnlySomeNoOps ==
    InvokedEdit =>
        /\ \/ /\ lastStep.dispatched = <<>>
              /\ lastStep.issued = <<>>
              /\ state = lastStep.before
              /\ \A t \in inFlight : t.id # nOps
           \/ /\ Dispatched("editSecretStarted")
              /\ LastPayload = InvokedParams
              /\ lastStep.issued = <<Request("put", state[1].basename)>>
              /\ \E t \in inFlight : t.id = nOps /\ t.method = "put"
        /\ lastStep.dispatched = <<>> <=>
              ( NoEffect /\ ~UnskippedNoOp(SecretOf(lastStep.before),
                                           lastStep.before[1].hiddenKeys,
                                           InvokedParams) )

\* the overwrite of a key with another value has been dispatched and put
C11_Witness ==
    /\ InvokedEdit
    /\ InvokedParams.action = "addOrOverwriteKeyValue"
    /\ In(InvokedParams.key, SecretOf(lastStep.before))
    /\ Get(SecretOf(lastStep.before), InvokedParams.key) # Str(InvokedParams.value)
    /\ Dispatched("editSecretStarted")
    /\ \E t \in inFlight : t.id = nOps /\ t.method = "put"

\* C12: whenever the slice's state is non-null and its secretWithMetadata is
\* undefined, isBeingUpdated is true and hiddenKeys is empty; and a step that
\* finds a secret shown and leaves none shown dispatched openStarted, so that
\* neither editSecretStarted nor editSecretCompleted (nor errorOcurred, nor
\* openCompleted) makes secretWithMetadata undefined again.
C12_UndefinedOnlyWhileOpening ==
    /\ (state # null /\ state[1].secretWithMetadata = undefined) =>
          /\ state[1].isBeingUpdated
          /\ state[1].hiddenKeys = <<>>
    /\ (ShowingSecret(lastStep.before) /\ ~ShowingSecret(state)) =>
          Dispatched("openStarted")
    /\ (lastStep.before # null) => (state # null)

\* a secret with a hidden key was shown and edited, a secret is being opened
\* over it, and the completion of that edit has just been dispatched
C12_Witness ==
    /\ Dispatched("editSecretCompleted")
    /\ Handled("put")
    /\ LastSettled.from[1].hiddenKeys # <<>>
    /\ state # null
    /\ state[1].secretWithMetadata = undefined

\* C13 as stated: whenever a request sent by openSecret or by
\* editCurrentlyShownSecret has not yet been answered to its thunk,
\* isBeingUpdated is true, two edits overlapping included.
C13_BusyWhileInFlight ==
    (inFlight # {}) => (state # null /\ state[1].isBeingUpdated)

\* C14 as stated: whenever a secret is shown, after an open of any stored
\* payload and after any edits, ".onyxia" is not a key of the editor's secret.
C14_NoExtraKeyInEditor ==
    ShowingSecret(state) => ~In(extraKey, SecretOf(state))

\* the version the store holds for a path at the start
InitialVersion(path) == (CHOOSE stores \in InitialStores : TRUE)[path].version

\* C15 as stated, for a secret opened once and edited since: when every thunk
\* called after the open was an edit whose put the store has applied, and
\* every put has returned (nothing is in flight, the editor has counted every
\* version stamped), the store holds for the shown path the editor's secret
\* with its ".onyxia" bookkeeping, in whatever order the store applied the
\* puts that overlapped.
C15_StoreMatchesEditor ==
    ( /\ ShowingSecret(state)
      /\ inFlight = {}
      /\ nOps >= 2
      /\ store[state[1].basename].version =
            InitialVersion(state[1].basename) + nOps - 1
      /\ VersionOf(state) = store[state[1].basename].version ) =>
        Pairs(store[state[1].basename].secret) =
            Pairs(PutPayload(SecretOf(state), state[1].hiddenKeys))

====
